---- MODULE Spec2Model ----
(***************************************************************************)
(* Model of scripts/export_data.py: the export pipeline that mirrors the   *)
(* remote tables into data/<season>/ (master files, 'By Tournament' and    *)
(* 'By Gameweek' folders) and derives the discrete per-gameweek stats.     *)
(*                                                                         *)
(* Python strings that the code inspects (match ids, directory names) are  *)
(* sequences of one-character strings; a CSV file is the sequence of its   *)
(* rows; a DataFrame is the sequence of its rows.                          *)
(***************************************************************************)
EXTENDS Integers, Sequences, FiniteSets, TLC

VARIABLES
    files,      \* path -> rows, the CSV files under data/<season>
    dirs,       \* the gameweek-level directories under data/<season>
    remote,     \* the input of the last run of main (tables and failures)
    written,    \* the paths the last run of main wrote
    status,     \* how the last run of main ended: "none", "ok", "exit1"
    op,         \* the last operation: "init", "main", "mkdir"
    frozen,     \* the gameweeks whose finished flag was true at the end of a run
    rerun,      \* the last run of main had the input of the run right before it
    floor,      \* the resume point the local summary gave before the last run
    tbl, failAt, offset, all_data, requests, fpc, fret,   \* fetch_all_rows
    mid, slugOut, spc,                                    \* extract_tournament_slug
    cur, prev, out, dpc                                   \* the stat calculation

mainVars == <<files, dirs, remote, written, status, op, frozen, rerun, floor>>
fetchVars == <<tbl, failAt, offset, all_data, requests, fpc, fret>>
slugVars == <<mid, slugOut, spc>>
deltaVars == <<cur, prev, out, dpc>>
vars == <<mainVars, fetchVars, slugVars, deltaVars>>

----------------------------------------------------------------------------
(* Bounds *)
MaxGW == 2          \* gameweek ids are 1..MaxGW
MaxVer == 2         \* versions of the remote data
MaxRows == 2001     \* rows of the remote table in the pagination model
MaxPieces == 3      \* pieces a match id is made of in the classifier model
MaxBad == 1         \* directories created by somebody else
MaxStat == 2        \* cumulative values in the stat calculation model

(* Program constants *)
BatchSize == 1000

----------------------------------------------------------------------------
(* Strings *)
Digits == <<"0", "1", "2", "3", "4", "5", "6", "7", "8", "9">>

RECURSIVE IntToStr(_)
\* f'{gw}': the decimal digits of a natural number
IntToStr(n) ==
    IF n < 10 THEN <<Digits[n + 1]>>
    ELSE IntToStr(n \div 10) \o <<Digits[(n % 10) + 1]>>

DigitVal(c) == CHOOSE d \in 0..9 : Digits[d + 1] = c

IsDigit(c) == \E d \in 0..9 : Digits[d + 1] = c

\* int(s) raises ValueError unless s is a non-empty string of digits
IsInt(s) == Len(s) > 0 /\ \A i \in 1..Len(s) : IsDigit(s[i])

RECURSIVE StrToInt(_)
StrToInt(s) ==
    IF Len(s) = 0 THEN 0
    ELSE 10 * StrToInt(SubSeq(s, 1, Len(s) - 1)) + DigitVal(s[Len(s)])

\* sub in s
Contains(sub, s) ==
    \E i \in 0..(Len(s) - Len(sub)) : SubSeq(s, i + 1, i + Len(sub)) = sub

\* d.startswith('GW')
StartsWithGW(d) == Len(d) >= 2 /\ d[1] = "G" /\ d[2] = "W"

\* f'GW{gw}'
GWDir(gw) == <<"G", "W">> \o IntToStr(gw)

\* x[2:]
Tail2(d) == SubSeq(d, 3, Len(d))

----------------------------------------------------------------------------
(* Configuration *)
S_friendly == <<"f","r","i","e","n","d","l","y">>
S_premier_league == <<"p","r","e","m","i","e","r","-","l","e","a","g","u","e">>
S_champions_league == <<"c","h","a","m","p","i","o","n","s","-","l","e","a","g","u","e">>
S_prem == <<"p","r","e","m">>
S_community_shield == <<"c","o","m","m","u","n","i","t","y","-","s","h","i","e","l","d">>
S_uefa_super_cup == <<"u","e","f","a","-","s","u","p","e","r","-","c","u","p">>
S_efl_cup == <<"e","f","l","-","c","u","p">>

\* the map with 'prem' put before 'premier-league'
TOURNAMENT_NAME_MAP_prem_first ==
    << [slug |-> S_friendly, name |-> "Friendlies"],
       [slug |-> S_prem, name |-> "Premier League"],
       [slug |-> S_premier_league, name |-> "Premier League"],
       [slug |-> S_champions_league, name |-> "Champions League"],
       [slug |-> S_community_shield, name |-> "Community Shield"],
       [slug |-> S_uefa_super_cup, name |-> "Uefa Super Cup"],
       [slug |-> S_efl_cup, name |-> "EFL Cup"] >>

\* the dict in insertion order, which is the order .keys() iterates in
TOURNAMENT_NAME_MAP ==
    << [slug |-> S_friendly, name |-> "Friendlies"],
       [slug |-> S_premier_league, name |-> "Premier League"],
       [slug |-> S_champions_league, name |-> "Champions League"],
       [slug |-> S_prem, name |-> "Premier League"],
       [slug |-> S_community_shield, name |-> "Community Shield"],
       [slug |-> S_uefa_super_cup, name |-> "Uefa Super Cup"],
       [slug |-> S_efl_cup, name |-> "EFL Cup"] >>

KnownSlugs == {TOURNAMENT_NAME_MAP[i].slug : i \in 1..Len(TOURNAMENT_NAME_MAP)}

\* TOURNAMENT_NAME_MAP.get(slug, ...): every slug the classifier returns is a key
FolderName(slug) ==
    LET i == CHOOSE j \in 1..Len(TOURNAMENT_NAME_MAP) : TOURNAMENT_NAME_MAP[j].slug = slug
    IN  TOURNAMENT_NAME_MAP[i].name

None == <<>>

\* a Python value that is either a str or something else (NaN, a number)
PyStr(s) == [isStr |-> TRUE, chars |-> s]
NotAStr == [isStr |-> FALSE, chars |-> <<>>]

\* the first key of the map, in iteration order, that occurs in the match id
extract_tournament_slug(match_id) ==
    IF ~match_id.isStr THEN None
    ELSE LET hits == {i \in 1..Len(TOURNAMENT_NAME_MAP) :
                         Contains(TOURNAMENT_NAME_MAP[i].slug, match_id.chars)}
         IN  IF hits = {} THEN None
             ELSE TOURNAMENT_NAME_MAP[CHOOSE i \in hits : \A j \in hits : i <= j].slug

----------------------------------------------------------------------------
(* fetch_all_rows *)
Min(a, b) == IF a < b THEN a ELSE b

\* .range(offset, offset + 1000 - 1): rows offset .. offset+999, 0-based, inclusive
Page(rows, off) == SubSeq(rows, off + 1, Min(off + BatchSize, Len(rows)))

\* the page number (1-based) of the request at an offset
PageNo(off) == (off \div BatchSize) + 1

RECURSIVE FetchLoop(_, _, _, _)
\* the while loop; a transport error at page `fail` (0: none) reaches the
\* except clause, which returns an empty DataFrame
FetchLoop(rows, off, acc, fail) ==
    IF fail = PageNo(off) THEN <<>>
    ELSE LET batch_data == Page(rows, off)
         IN  IF Len(batch_data) < BatchSize THEN acc \o batch_data
             ELSE FetchLoop(rows, off + BatchSize, acc \o batch_data, fail)

fetch_all_rows(rows, fail) == FetchLoop(rows, 0, <<>>, fail)

\* a loop that breaks on an empty page only
FetchLastPage_break_on_empty ==
    /\ fpc = "loop"
    /\ failAt # PageNo(offset)
    /\ Len(Page(tbl, offset)) < BatchSize
    /\ requests' = Append(requests, offset)
    /\ all_data' = all_data \o Page(tbl, offset)
    /\ offset' = offset + BatchSize
    /\ IF Len(Page(tbl, offset)) = 0
          THEN fpc' = "done" /\ fret' = all_data'
          ELSE fpc' = fpc /\ fret' = fret
    /\ UNCHANGED <<tbl, failAt>>
    /\ UNCHANGED <<mainVars, slugVars, deltaVars>>

\* one iteration of the loop that ends at `break`
FetchLastPage ==
    /\ fpc = "loop"
    /\ failAt # PageNo(offset)
    /\ Len(Page(tbl, offset)) < BatchSize
    /\ requests' = Append(requests, offset)
    /\ all_data' = all_data \o Page(tbl, offset)
    /\ fpc' = "done"
    /\ fret' = all_data'
    /\ UNCHANGED <<tbl, failAt, offset>>
    /\ UNCHANGED <<mainVars, slugVars, deltaVars>>

\* one iteration of the loop that goes on to the next offset
FetchFullPage ==
    /\ fpc = "loop"
    /\ failAt # PageNo(offset)
    /\ Len(Page(tbl, offset)) >= BatchSize
    /\ requests' = Append(requests, offset)
    /\ all_data' = all_data \o Page(tbl, offset)
    /\ offset' = offset + BatchSize
    /\ UNCHANGED <<tbl, failAt, fpc, fret>>
    /\ UNCHANGED <<mainVars, slugVars, deltaVars>>

\* the request raises: the except clause returns an empty DataFrame
FetchError ==
    /\ fpc = "loop"
    /\ failAt = PageNo(offset)
    /\ requests' = Append(requests, offset)
    /\ fpc' = "failed"
    /\ fret' = <<>>
    /\ UNCHANGED <<tbl, failAt, offset, all_data>>
    /\ UNCHANGED <<mainVars, slugVars, deltaVars>>

----------------------------------------------------------------------------
(* The stat calculation of calculate_discrete_gameweek_stats *)

\* ID_COLS + SNAPSHOT_COLS + CUMULATIVE_COLS, the columns the model keeps
FinalRow(r, points) == [id |-> r.id, now_cost |-> r.now_cost, total_points |-> points]

\* current_df[existing_cols]: the cumulative values, undiffed
Baseline(current_df) == [i \in 1..Len(current_df) |-> FinalRow(current_df[i], current_df[i].total_points)]

RECURSIVE Discrete_clamped(_, _)
\* a difference that is clamped at 0
Discrete_clamped(current_df, prev_df) ==
    IF current_df = <<>> THEN <<>>
    ELSE LET c == Head(current_df)
             SameId(p) == p.id = c.id
             m == SelectSeq(prev_df, SameId)
             Diff(x) == IF c.total_points - x < 0 THEN 0 ELSE c.total_points - x
         IN  (IF m = <<>> THEN <<FinalRow(c, c.total_points)>>
              ELSE [i \in 1..Len(m) |-> FinalRow(c, Diff(m[i].total_points))])
             \o Discrete_clamped(Tail(current_df), prev_df)

RECURSIVE Discrete(_, _)
\* pd.merge(current_df, prev_df[...], on='id', how='left'), fillna(0) on the
\* _prev column, col = col - col_prev, then the final columns
Discrete(current_df, prev_df) ==
    IF current_df = <<>> THEN <<>>
    ELSE LET c == Head(current_df)
             SameId(p) == p.id = c.id
             m == SelectSeq(prev_df, SameId)
         IN  (IF m = <<>> THEN <<FinalRow(c, c.total_points - 0)>>
              ELSE [i \in 1..Len(m) |-> FinalRow(c, c.total_points - m[i].total_points)])
             \o Discrete(Tail(current_df), prev_df)

----------------------------------------------------------------------------
(* The remote tables a run can receive *)
GW == 1..MaxGW

RECURSIVE SetToSeq(_)
\* the elements of a set of integers in increasing order
SetToSeq(S) ==
    IF S = {} THEN <<>>
    ELSE LET m == CHOOSE x \in S : \A y \in S : x <= y
         IN  <<m>> \o SetToSeq(S \ {m})

RECURSIVE Concat(_)
Concat(ss) == IF ss = <<>> THEN <<>> ELSE Head(ss) \o Concat(Tail(ss))

\* the gameweeks tables: any non-empty set of ids, any finished flags
GameweekTables ==
    { [i \in 1..Cardinality(ids) |->
          [id |-> SetToSeq(ids)[i], finished |-> SetToSeq(ids)[i] \in fin]] :
      <<ids, fin>> \in {x \in (SUBSET GW) \X (SUBSET GW) : x[1] # {} /\ x[2] \subseteq x[1]} }

Dash(s, n) == s \o <<"-">> \o IntToStr(n)
S_fa_cup == <<"f","a","-","c","u","p">>

\* an input of main: the remote data and the essential table whose fetch
\* fails; the fetch of playermatchstats always succeeds
Inputs ==
    [gameweeks : GameweekTables, ver : 1..MaxVer,
     fail : {"none", "gameweeks", "players", "playerstats", "teams", "matches"}]

NoInput == [gameweeks |-> <<>>, ver |-> 0, fail |-> "none"]

PlayersOf(g) == IF g >= 2 THEN {1, 2} ELSE {1}

RemotePlayers(inp) == [p \in 1..2 |-> [id |-> p, now_cost |-> inp.ver + p]]

RemoteTeams(inp) == <<[id |-> 1, strength |-> inp.ver]>>

\* one row per (player, gameweek); player 2 joins in gameweek 2
RemotePlayerstats(inp) ==
    Concat([g \in 1..MaxGW |->
        [i \in 1..Cardinality(PlayersOf(g)) |->
            [id |-> i, gw |-> g, now_cost |-> inp.ver + i,
             total_points |-> g * g + i + inp.ver]]])

\* a league match in every gameweek, a pre-season one in gameweek 0, a
\* friendly, a cup match in the last gameweek, and one of an unknown competition
RemoteMatches(inp) ==
    << [match_id |-> Dash(S_prem, 0), gameweek |-> 0, home_score |-> inp.ver],
       [match_id |-> Dash(S_friendly, 1), gameweek |-> 1, home_score |-> inp.ver] >>
    \o [g \in 1..MaxGW |->
          [match_id |-> Dash(IF g = 1 THEN S_premier_league ELSE S_prem, g),
           gameweek |-> g, home_score |-> inp.ver]]
    \o << [match_id |-> Dash(S_efl_cup, 1), gameweek |-> MaxGW, home_score |-> inp.ver],
          [match_id |-> Dash(S_fa_cup, 1), gameweek |-> 1, home_score |-> inp.ver] >>

\* player 1 plays in every match
RemotePlayermatchstats(inp) ==
    [i \in 1..Len(RemoteMatches(inp)) |->
        [player_id |-> 1, match_id |-> RemoteMatches(inp)[i].match_id, minutes |-> 90 - inp.ver]]

RemoteTable(inp, name) ==
    CASE name = "gameweeks" -> inp.gameweeks
      [] name = "players" -> RemotePlayers(inp)
      [] name = "playerstats" -> RemotePlayerstats(inp)
      [] name = "teams" -> RemoteTeams(inp)
      [] name = "matches" -> RemoteMatches(inp)
      [] name = "playermatchstats" -> RemotePlayermatchstats(inp)

\* the DataFrame main gets for a table
Fetched(inp, name) == fetch_all_rows(RemoteTable(inp, name), IF inp.fail = name THEN 1 ELSE 0)

TableNames == {"gameweeks", "players", "playerstats", "teams", "matches", "playermatchstats"}

\* the six DataFrames fetched at the beginning of main
FetchAll(inp) == [name \in TableNames |-> Fetched(inp, name)]

----------------------------------------------------------------------------
(* Paths under data/<season> *)
MasterPath(file) == [root |-> "master", tour |-> "", gw |-> <<>>, file |-> file]
GwPath(d, file) == [root |-> "By Gameweek", tour |-> "", gw |-> d, file |-> file]
TourPath(t, d, file) == [root |-> "By Tournament", tour |-> t, gw |-> d, file |-> file]
GwDirOf(d) == [root |-> "By Gameweek", tour |-> "", gw |-> d]
TourDirOf(t, d) == [root |-> "By Tournament", tour |-> t, gw |-> d]
InDir(d, file) == [root |-> d.root, tour |-> d.tour, gw |-> d.gw, file |-> file]

Exists(fs, p) == p \in DOMAIN fs

EmptyFS == [p \in {} |-> <<>>]

\* the store a run works on: the files, the directories, and what it has written
Store(fs, ds) == [files |-> fs, dirs |-> ds, written |-> {}]

\* a write that appends to the file
ToCsv_append(st, path, rows) ==
    [st EXCEPT !.files = (path :> ((IF path \in DOMAIN st.files THEN st.files[path] ELSE <<>>) \o rows)) @@ @,
               !.written = @ \cup {path}]

\* df.to_csv(path, index=False): the file is replaced by the rows of df
ToCsv(st, path, rows) ==
    [st EXCEPT !.files = (path :> rows) @@ @, !.written = @ \cup {path}]

\* os.makedirs(path, exist_ok=True)
MakeDirs(st, d) == [st EXCEPT !.dirs = @ \cup {d}]

----------------------------------------------------------------------------
(* main: pre-processing *)
\* the list without teams_df
Essential_no_teams == {"gameweeks", "players", "playerstats", "matches"}

\* essential_dfs
Essential == {"gameweeks", "players", "playerstats", "teams", "matches"}

\* any(df.empty for df in essential_dfs)
AnyEssentialEmpty(t) == \E name \in Essential : t[name] = <<>>

\* matches_df['tournament'] = matches_df['match_id'].apply(extract_tournament_slug)
WithTournament(matches_df) ==
    [i \in 1..Len(matches_df) |->
        [match_id |-> matches_df[i].match_id, gameweek |-> matches_df[i].gameweek,
         home_score |-> matches_df[i].home_score,
         tournament |-> extract_tournament_slug(PyStr(matches_df[i].match_id))]]

\* (gameweek != 0) & (tournament != 'friendly')
RelevantMatches(matches_df) ==
    LET Keep(m) == m.gameweek # 0 /\ m.tournament # S_friendly
    IN  SelectSeq(WithTournament(matches_df), Keep)

RECURSIVE Unique(_)
\* .unique(): the distinct values in order of first appearance
Unique(s) ==
    IF s = <<>> THEN <<>>
    ELSE LET r == Unique(SubSeq(s, 1, Len(s) - 1))
             x == s[Len(s)]
         IN  IF \E i \in 1..Len(r) : r[i] = x THEN r ELSE Append(r, x)

\* matches_df['tournament'].dropna().unique()
UniqueTournaments(matches_df) ==
    LET NotNone(t) == t # None
    IN  Unique(SelectSeq([i \in 1..Len(matches_df) |-> matches_df[i].tournament], NotNone))

GameweekIds(gameweeks_df) == {gameweeks_df[i].id : i \in 1..Len(gameweeks_df)}

\* the local checkpoint: the highest gameweek the persisted summary marks finished
ResumePoint(fs) ==
    IF ~Exists(fs, MasterPath("gameweek_summaries.csv")) THEN 1
    ELSE LET loc == fs[MasterPath("gameweek_summaries.csv")]
             fin == {loc[i].id : i \in {j \in 1..Len(loc) : loc[j].finished}}
         IN  IF fin = {} THEN 1 ELSE CHOOSE x \in fin : \A y \in fin : y <= x

\* the gameweeks from the local resume point on
unique_gameweeks_resumed(gameweeks_df) ==
    SetToSeq({g \in GameweekIds(gameweeks_df) : g >= ResumePoint(files)})

\* sorted(gameweeks_df['id'].dropna().unique().astype(int))
unique_gameweeks(gameweeks_df) == SetToSeq(GameweekIds(gameweeks_df))

----------------------------------------------------------------------------
(* main: 1. master files *)
UpdateMaster(st, t) ==
    LET s1 == ToCsv(st, MasterPath("gameweek_summaries.csv"), t.gameweeks)
        s2 == ToCsv(s1, MasterPath("players.csv"), t.players)
        s3 == ToCsv(s2, MasterPath("playerstats.csv"), t.playerstats)
    IN  ToCsv(s3, MasterPath("teams.csv"), t.teams)

\* the six files written into one gameweek directory
PopulateDir(st, d, gw, dir_matches, t) ==
    LET match_ids == {dir_matches[i].match_id : i \in 1..Len(dir_matches)}
        InMatches(r) == r.match_id \in match_ids
        OfGw(r) == r.gw = gw
        s0 == MakeDirs(st, d)
        s1 == ToCsv(s0, InDir(d, "matches.csv"), dir_matches)
        s2 == ToCsv(s1, InDir(d, "playermatchstats.csv"),
                    SelectSeq(t.playermatchstats, InMatches))
        s3 == ToCsv(s2, InDir(d, "fixtures.csv"), dir_matches)
        s4 == ToCsv(s3, InDir(d, "players.csv"), t.players)
        s5 == ToCsv(s4, InDir(d, "teams.csv"), t.teams)
    IN  ToCsv(s5, InDir(d, "playerstats.csv"), SelectSeq(t.playerstats, OfGw))

----------------------------------------------------------------------------
(* main: 2. 'By Tournament' folders *)
RECURSIVE TournamentGwLoop(_, _, _, _, _)
TournamentGwLoop(st, slug, gws, matches_df, t) ==
    IF gws = <<>> THEN st
    ELSE LET gw == Head(gws)
             d == TourDirOf(FolderName(slug), GWDir(gw))
             OfGw(m) == m.tournament = slug /\ m.gameweek = gw
         IN  IF gw \notin GameweekIds(t.gameweeks)
                THEN TournamentGwLoop(st, slug, Tail(gws), matches_df, t)
             ELSE TournamentGwLoop(PopulateDir(st, d, gw, SelectSeq(matches_df, OfGw), t),
                                   slug, Tail(gws), matches_df, t)

RECURSIVE TournamentLoop(_, _, _, _)
TournamentLoop(st, slugs, matches_df, t) ==
    IF slugs = <<>> THEN st
    ELSE LET slug == Head(slugs)
             gws_in_tournament ==
                 SetToSeq({matches_df[i].gameweek :
                              i \in {j \in 1..Len(matches_df) : matches_df[j].tournament = slug}})
         IN  TournamentLoop(TournamentGwLoop(st, slug, gws_in_tournament, matches_df, t),
                            Tail(slugs), matches_df, t)

(* main: 3. 'By Gameweek' folders *)
RECURSIVE GameweekLoop(_, _, _, _)
GameweekLoop(st, gws, matches_df, t) ==
    IF gws = <<>> THEN st
    ELSE LET gw == Head(gws)
             d == GwDirOf(GWDir(gw))
             OfGw(m) == m.gameweek = gw
         IN  GameweekLoop(PopulateDir(st, d, gw, SelectSeq(matches_df, OfGw), t),
                          Tail(gws), matches_df, t)

----------------------------------------------------------------------------
(* calculate_discrete_gameweek_stats *)
Stats == "player_gameweek_stats.csv"
Playerstats == "playerstats.csv"

\* [d for d in os.listdir(path) if d.startswith('GW')]
GwNames(ds, root, tour) ==
    {d.gw : d \in {e \in ds : e.root = root /\ e.tour = tour /\ StartsWithGW(e.gw)}}

RECURSIVE SortByInt(_)
SortByInt(names) ==
    IF names = {} THEN <<>>
    ELSE LET m == CHOOSE x \in names : \A y \in names : StrToInt(Tail2(x)) <= StrToInt(Tail2(y))
         IN  <<m>> \o SortByInt(names \ {m})

\* a sort that drops the names int() rejects instead of raising
SortedGwDirs_skip_one(names) ==
    [ok |-> TRUE, list |-> SortByInt({n \in names : IsInt(Tail2(n))})]

\* sorted(..., key=lambda x: int(x[2:])): one name that int() rejects raises
\* ValueError for the whole listing
SortedGwDirs(names) ==
    IF \E n \in names : ~IsInt(Tail2(n)) THEN [ok |-> FALSE, list |-> <<>>]
    ELSE [ok |-> TRUE, list |-> SortByInt(names)]

RECURSIVE ByGameweekPass(_, _, _)
\* Part 1: the baseline of the i-th directory is the (i-1)-th of the sorted list
ByGameweekPass(st, gameweek_dirs, i) ==
    IF i > Len(gameweek_dirs) THEN st
    ELSE LET current_stats_path == GwPath(gameweek_dirs[i], Playerstats)
             output_path == GwPath(gameweek_dirs[i], Stats)
         IN  IF ~Exists(st.files, current_stats_path)
                THEN ByGameweekPass(st, gameweek_dirs, i + 1)
             ELSE IF i = 1
                THEN ByGameweekPass(ToCsv(st, output_path, Baseline(st.files[current_stats_path])),
                                    gameweek_dirs, i + 1)
             ELSE LET prev_stats_path == GwPath(gameweek_dirs[i - 1], Playerstats)
                  IN  IF ~Exists(st.files, prev_stats_path)
                         THEN ByGameweekPass(st, gameweek_dirs, i + 1)
                      ELSE ByGameweekPass(
                               ToCsv(st, output_path,
                                     Discrete(st.files[current_stats_path], st.files[prev_stats_path])),
                               gameweek_dirs, i + 1)

RECURSIVE TournamentDirPass(_, _, _)
\* Part 2, one tournament: the baseline of GWn is 'By Gameweek'/GW(n-1)
TournamentDirPass(st, tournament_name, tournament_gw_dirs) ==
    IF tournament_gw_dirs = <<>> THEN st
    ELSE LET gw_dir == Head(tournament_gw_dirs)
             gw_num == StrToInt(Tail2(gw_dir))
             current_stats_path == TourPath(tournament_name, gw_dir, Playerstats)
             output_path == TourPath(tournament_name, gw_dir, Stats)
             prev_stats_path == GwPath(GWDir(gw_num - 1), Playerstats)
             rest == Tail(tournament_gw_dirs)
         IN  IF ~Exists(st.files, current_stats_path)
                THEN TournamentDirPass(st, tournament_name, rest)
             ELSE IF gw_num = 1
                THEN TournamentDirPass(ToCsv(st, output_path, Baseline(st.files[current_stats_path])),
                                       tournament_name, rest)
             ELSE IF ~Exists(st.files, prev_stats_path)
                THEN TournamentDirPass(st, tournament_name, rest)
             ELSE TournamentDirPass(
                      ToCsv(st, output_path,
                            Discrete(st.files[current_stats_path], st.files[prev_stats_path])),
                      tournament_name, rest)

TournamentNames(ds) == {d.tour : d \in {e \in ds : e.root = "By Tournament"}}

RECURSIVE ByTournamentPass(_, _)
\* Part 2: a tournament whose listing cannot be parsed is skipped
ByTournamentPass(st, names) ==
    IF names = {} THEN st
    ELSE LET tournament_name == CHOOSE t \in names : TRUE
             sorted == SortedGwDirs(GwNames(st.dirs, "By Tournament", tournament_name))
         IN  IF ~sorted.ok THEN ByTournamentPass(st, names \ {tournament_name})
             ELSE ByTournamentPass(TournamentDirPass(st, tournament_name, sorted.list),
                                   names \ {tournament_name})

calculate_discrete_gameweek_stats(st) ==
    IF ~\E d \in st.dirs : d.root = "By Gameweek" THEN st
    ELSE LET s1 == ByGameweekPass(st, SortedGwDirs(GwNames(st.dirs, "By Gameweek", "")).list, 1)
         IN  ByTournamentPass(s1, TournamentNames(s1.dirs))

----------------------------------------------------------------------------
(* main *)
\* the store after the steps 1 to 4 of a run whose essential tables arrived
RunPipeline(fs, ds, t) ==
    LET matches_df == RelevantMatches(t.matches)
        s1 == UpdateMaster(Store(fs, ds), t)
        s2 == TournamentLoop(s1, UniqueTournaments(matches_df), matches_df, t)
        s3 == GameweekLoop(s2, unique_gameweeks(t.gameweeks), matches_df, t)
    IN  calculate_discrete_gameweek_stats(s3)

FinishedIn(gameweeks_df) ==
    {gameweeks_df[i].id : i \in {j \in 1..Len(gameweeks_df) : gameweeks_df[j].finished}}

\* what a run has received: of a run that aborts, only the table that failed
Received(inp) == IF AnyEssentialEmpty(FetchAll(inp)) THEN [NoInput EXCEPT !.fail = inp.fail] ELSE inp

\* one run of the script against the remote data inp; the remote never
\* reverts a finished flag
Main(inp) ==
    LET t == FetchAll(inp)
        rec == Received(inp)
    IN  /\ frozen \cap GameweekIds(inp.gameweeks) \subseteq FinishedIn(inp.gameweeks)
        /\ op' = "main"
        /\ remote' = rec
        /\ rerun' = (op = "main" /\ remote = rec /\ ~AnyEssentialEmpty(t))
        /\ floor' = ResumePoint(files)
        /\ IF AnyEssentialEmpty(t)
              THEN /\ status' = "exit1"
                   /\ written' = {}
                   /\ UNCHANGED <<files, dirs, frozen>>
              ELSE LET end == RunPipeline(files, dirs, t)
                   IN  /\ files' = end.files
                       /\ dirs' = end.dirs
                       /\ written' = end.written
                       /\ status' = "ok"
                       /\ frozen' = frozen \cup FinishedIn(inp.gameweeks)
        /\ UNCHANGED <<fetchVars, slugVars, deltaVars>>

\* a directory name that starts with 'GW' and is not followed by a number
BadName == <<"G", "W", "-", "o", "l", "d">>

\* somebody else creates a directory next to the gameweek directories
Mkdir(d) ==
    /\ d \notin dirs
    /\ Cardinality({e \in dirs : e.gw = BadName}) < MaxBad
    /\ \E e \in dirs : e.root = d.root /\ e.tour = d.tour
    /\ dirs' = dirs \cup {d}
    /\ op' = "mkdir"
    /\ UNCHANGED <<files, remote, written, status, frozen, rerun, floor>>
    /\ UNCHANGED <<fetchVars, slugVars, deltaVars>>

MainInit ==
    /\ files = EmptyFS
    /\ dirs = {}
    /\ remote = NoInput
    /\ written = {}
    /\ status = "none"
    /\ op = "init"
    /\ frozen = {}
    /\ rerun = FALSE
    /\ floor = 0

FetchIdle ==
    /\ tbl = <<>> /\ failAt = 0 /\ offset = 0 /\ all_data = <<>>
    /\ requests = <<>> /\ fpc = "idle" /\ fret = <<>>

SlugIdle == mid = NotAStr /\ slugOut = None /\ spc = "idle"

DeltaIdle == cur = <<>> /\ prev = <<>> /\ out = <<>> /\ dpc = "idle"

Init == MainInit /\ FetchIdle /\ SlugIdle /\ DeltaIdle

\* the inputs of the runs in which every fetch succeeds
OkInputs == {inp \in Inputs : inp.fail = "none"}

\* the inputs in which the remote gameweeks table holds the season so far,
\* gameweeks 1..k
SeasonInputs == {inp \in Inputs : \E k \in GW : GameweekIds(inp.gameweeks) = 1..k}

RunMain == \E inp \in OkInputs : Main(inp)

Next == RunMain

\* the runs of main in which every fetch succeeds, on any gameweeks table
Spec == Init /\ [][Next]_vars

RunMainAbort == \E inp \in SeasonInputs : Main(inp)

NextAbort == RunMainAbort

\* the runs of main on the season so far, with and without fetch failures
SpecAbort == Init /\ [][NextAbort]_vars

\* the inputs in which the remote gameweeks table holds every gameweek and
\* every fetch succeeds
DirInputs == {inp \in OkInputs : GameweekIds(inp.gameweeks) = GW}

RunMainDirs == \E inp \in DirInputs : Main(inp)

ExternalMkdir ==
    \E d \in {GwDirOf(BadName)} \cup {TourDirOf(t, BadName) : t \in TournamentNames(dirs)} : Mkdir(d)

NextDirs == RunMainDirs \/ ExternalMkdir

\* the runs of main on the whole season, on a store in which somebody else
\* creates directories
SpecDirs == Init /\ [][NextDirs]_vars

----------------------------------------------------------------------------
(* fetch_all_rows, page by page *)
FetchInit ==
    /\ \E n \in 0..MaxRows : tbl = [i \in 1..n |-> i]
    /\ failAt \in 0..PageNo(MaxRows)
    /\ offset = 0 /\ all_data = <<>> /\ requests = <<>> /\ fpc = "loop" /\ fret = <<>>

InitFetch == MainInit /\ FetchInit /\ SlugIdle /\ DeltaIdle

NextFetch == FetchFullPage \/ FetchLastPage \/ FetchError

SpecFetch == InitFetch /\ [][NextFetch]_vars

----------------------------------------------------------------------------
(* extract_tournament_slug on match ids put together from pieces *)
Pieces == KnownSlugs \cup {<<"-">>, <<"2", "5">>, <<"p", "r", "e">>, <<"m">>}

RECURSIVE IdsOf(_)
\* the strings made of at most n pieces
IdsOf(n) ==
    IF n = 0 THEN {<<>>}
    ELSE IdsOf(n - 1) \cup {s \o p : s \in IdsOf(n - 1), p \in Pieces}

SlugInit ==
    /\ mid \in {PyStr(s) : s \in IdsOf(MaxPieces)} \cup {NotAStr}
    /\ slugOut = None
    /\ spc = "call"

Classify ==
    /\ spc = "call"
    /\ slugOut' = extract_tournament_slug(mid)
    /\ spc' = "done"
    /\ UNCHANGED <<mid, mainVars, fetchVars, deltaVars>>

InitSlug == MainInit /\ FetchIdle /\ SlugInit /\ DeltaIdle

NextSlug == Classify

SpecSlug == InitSlug /\ [][NextSlug]_vars

----------------------------------------------------------------------------
(* the stat calculation on snapshots *)
PlayerIds == {1, 2}

StatRows == [id : PlayerIds, gw : {1}, now_cost : 1..2, total_points : 0..MaxStat]

\* a snapshot has one row per player id
Snapshots ==
    {<<>>} \cup {<<r>> : r \in StatRows}
    \cup {<<r, q>> : <<r, q>> \in {x \in StatRows \X StatRows : x[1].id # x[2].id}}

DeltaInit ==
    /\ cur \in Snapshots
    /\ prev \in Snapshots
    /\ out = <<>>
    /\ dpc = "call"

\* the first period: the cumulative values are the output
DeltaBaseline ==
    /\ dpc = "call"
    /\ out' = Baseline(cur)
    /\ dpc' = "base"
    /\ UNCHANGED <<cur, prev, mainVars, fetchVars, slugVars>>

\* a later period: current minus previous
DeltaDiff ==
    /\ dpc = "call"
    /\ out' = Discrete(cur, prev)
    /\ dpc' = "diff"
    /\ UNCHANGED <<cur, prev, mainVars, fetchVars, slugVars>>

InitDelta == MainInit /\ FetchIdle /\ SlugIdle /\ DeltaInit

NextDelta == DeltaBaseline \/ DeltaDiff

SpecDelta == InitDelta /\ [][NextDelta]_vars

----------------------------------------------------------------------------
(* Properties *)
PopFiles == {"matches.csv", "playermatchstats.csv", "fixtures.csv", "players.csv",
             "teams.csv", "playerstats.csv"}

\* the gameweek number a per-period path is about
PeriodOf(p) == StrToInt(Tail2(p.gw))

IsPeriodPath(p) == p.root # "master" /\ StartsWithGW(p.gw) /\ IsInt(Tail2(p.gw))

\* C1: a run leaves the players and teams snapshots of every period that was
\* finished at the end of an earlier run as they are, under 'By Gameweek' and
\* under every tournament.
C1_FreezeInvariant ==
    [][op' = "main" =>
          \A p \in DOMAIN files :
              (IsPeriodPath(p) /\ p.file \in {"players.csv", "teams.csv"} /\ PeriodOf(p) \in frozen)
                  => (p \in DOMAIN files' /\ files'[p] = files[p])]_vars

C3_Idempotent ==
    [][(op' = "main" /\ rerun') => (files' = files /\ dirs' = dirs)]_vars

\* a second run on the same data, with derived stats and a stale directory on disk
C3_Witness ==
    /\ rerun /\ status = "ok"
    /\ \E p \in DOMAIN files : p.file = Playerstats /\ p \notin written
    /\ \E p \in written : p.file = Stats /\ Len(files[p]) > 0

\* the cumulative value of a player in a snapshot, 0 without a row
PrevPoints(snapshot, id) ==
    IF \E i \in 1..Len(snapshot) : snapshot[i].id = id
       THEN snapshot[CHOOSE i \in 1..Len(snapshot) : snapshot[i].id = id].total_points
       ELSE 0

\* C4: the derived table has one row per row of the current snapshot, in its
\* order; the cumulative column is current minus previous (0 without a previous
\* row), negative or not, and the snapshot column is the current one.
C4_DeltaCorrect ==
    /\ dpc = "diff" =>
          /\ Len(out) = Len(cur)
          /\ \A i \in 1..Len(out) :
                /\ out[i].id = cur[i].id
                /\ out[i].now_cost = cur[i].now_cost
                /\ out[i].total_points = cur[i].total_points - PrevPoints(prev, cur[i].id)
    /\ dpc = "base" =>
          /\ Len(out) = Len(cur)
          /\ \A i \in 1..Len(out) :
                /\ out[i].id = cur[i].id
                /\ out[i].now_cost = cur[i].now_cost
                /\ out[i].total_points = cur[i].total_points

\* a new player next to one whose total went down
C4_Witness ==
    /\ dpc = "diff" /\ Len(out) = 2 /\ Len(prev) = 1
    /\ \E i \in 1..2 : out[i].total_points < 0
    /\ \E i \in 1..2 : out[i].id # prev[1].id /\ out[i].total_points = cur[i].total_points
                       /\ out[i].total_points > 0

\* C5: a run in which the fetch of gameweeks, players, playerstats, teams or
\* matches fails exits with 1 and writes nothing: every file and directory is
\* as before.
C5_FatalFetchFailure ==
    [][(op' = "main"
        /\ remote'.fail \in {"gameweeks", "players", "playerstats", "teams", "matches"})
          => (status' = "exit1" /\ written' = {} /\ files' = files /\ dirs' = dirs)]_vars

\* an aborted run on a store that an earlier run has filled
C5_Witness ==
    /\ op = "main" /\ status = "exit1" /\ remote.fail = "teams"
    /\ MasterPath("teams.csv") \in DOMAIN files
    /\ Len(files[MasterPath("teams.csv")]) > 0

\* the declared unique key of the rows of a file
KeyOf(file, r) ==
    CASE file \in {"matches.csv", "fixtures.csv"} -> <<r.match_id>>
      [] file = "playermatchstats.csv" -> <<r.player_id, r.match_id>>
      [] file = "playerstats.csv" -> <<r.id, r.gw>>
      [] OTHER -> <<r.id>>

KeysUnique(file, rows) ==
    \A i, j \in 1..Len(rows) : KeyOf(file, rows[i]) = KeyOf(file, rows[j]) => i = j

\* the rows a run has received for a file
ReceivedRows(inp, file) ==
    LET rows == CASE file \in {"matches.csv", "fixtures.csv"} -> WithTournament(RemoteMatches(inp))
                  [] file = "playermatchstats.csv" -> RemotePlayermatchstats(inp)
                  [] file = "playerstats.csv" -> RemotePlayerstats(inp)
                  [] file = "players.csv" -> RemotePlayers(inp)
                  [] file = "teams.csv" -> RemoteTeams(inp)
                  [] file = "gameweek_summaries.csv" -> inp.gameweeks
    IN  {rows[i] : i \in 1..Len(rows)}

\* C6: no file holds two rows with the same unique key, and every row of a file
\* the last run wrote is the row that run received for its key.
C6_KeyUniqueNewWins ==
    /\ \A p \in DOMAIN files : KeysUnique(p.file, files[p])
    /\ status = "ok" =>
          \A p \in written : p.file # Stats =>
              \A i \in 1..Len(files[p]) : files[p][i] \in ReceivedRows(remote, p.file)

\* the master players file was rewritten with rows that differ, key by key, from
\* the ones an earlier run left in a gameweek directory
C6_Witness ==
    /\ status = "ok"
    /\ MasterPath("players.csv") \in written
    /\ \E p \in DOMAIN files :
          /\ p.file = "players.csv" /\ p \notin written
          /\ Len(files[p]) = Len(files[MasterPath("players.csv")])
          /\ \A i \in 1..Len(files[p]) :
                /\ files[p][i].id = files[MasterPath("players.csv")][i].id
                /\ files[p][i] # files[MasterPath("players.csv")][i]

\* C7: the stats written for 'By Gameweek'/GWn are the snapshot of GWn minus the
\* snapshot of GW(n-1), and the snapshot is copied undiffed only for n = 1.
C7_BaselineIsPeriodBefore ==
    status = "ok" =>
        \A p \in written : (p.root = "By Gameweek" /\ p.file = Stats) =>
            LET current_df == files[GwPath(p.gw, Playerstats)]
                prev_path == GwPath(GWDir(PeriodOf(p) - 1), Playerstats)
            IN  IF PeriodOf(p) = 1 THEN files[p] = Baseline(current_df)
                ELSE /\ prev_path \in DOMAIN files
                     /\ files[p] = Discrete(current_df, files[prev_path])

\* the gameweek directories of a listing, and whether one of them has no number
Listing(d) == {e \in dirs : e.root = d.root /\ e.tour = d.tour /\ StartsWithGW(e.gw)}
HasUnparseable(d) == \E e \in Listing(d) : ~IsInt(Tail2(e.gw))
HasSnapshot(d) == InDir(d, Playerstats) \in DOMAIN files
HasBaseline(d) ==
    IF d.root = "By Gameweek"
       THEN \A e \in Listing(d) :
               (IsInt(Tail2(e.gw)) /\ StrToInt(Tail2(e.gw)) < StrToInt(Tail2(d.gw))
                /\ \A x \in Listing(d) :
                      (IsInt(Tail2(x.gw)) /\ StrToInt(Tail2(x.gw)) < StrToInt(Tail2(d.gw)))
                          => StrToInt(Tail2(x.gw)) <= StrToInt(Tail2(e.gw)))
                   => HasSnapshot(e)
       ELSE StrToInt(Tail2(d.gw)) = 1
            \/ GwPath(GWDir(StrToInt(Tail2(d.gw)) - 1), Playerstats) \in DOMAIN files

GwDirs == {d \in dirs : StartsWithGW(d.gw) /\ IsInt(Tail2(d.gw))}

\* C8 as stated: only the directory without a number is skipped; every other
\* gameweek directory whose snapshots exist gets its stats file in the run.
C8_OnlyThatDirectorySkipped ==
    (op = "main" /\ status = "ok") =>
        \A d \in GwDirs : (HasSnapshot(d) /\ HasBaseline(d)) => InDir(d, Stats) \in written

\* C8 amended: the listing that holds the directory without a number is skipped
\* as a whole ('By Gameweek', or that one tournament); in every other listing
\* each gameweek directory whose snapshots exist gets its stats file, and the
\* run ends normally.
C8_ListingSkipped ==
    (op = "main" /\ status = "ok") =>
        \A d \in GwDirs :
            IF HasUnparseable(d) THEN InDir(d, Stats) \notin written
            ELSE (HasSnapshot(d) /\ HasBaseline(d)) => InDir(d, Stats) \in written

\* a run with such a directory under 'By Gameweek' that wrote the stats of a
\* tournament, and none under 'By Gameweek'
C8_Witness ==
    /\ op = "main" /\ status = "ok"
    /\ GwDirOf(BadName) \in dirs
    /\ \E p \in written : p.root = "By Tournament" /\ p.file = Stats
    /\ \E d \in GwDirs : d.root = "By Gameweek" /\ HasSnapshot(d)

\* C9: the loop requests the offsets 0, 1000, 2000, ... one per page, stops
\* after the first page shorter than 1000 rows, and returns the rows of the
\* table, each once, in order.
C9_PaginationComplete ==
    /\ Len(requests) <= (Len(tbl) \div 1000) + 1
    /\ \A i \in 1..Len(requests) : requests[i] = (i - 1) * 1000
    /\ fpc = "loop" => (offset = 1000 * Len(requests) /\ offset <= Len(tbl))
    /\ fpc = "done" => (fret = tbl /\ Len(requests) = (Len(tbl) \div 1000) + 1)

\* a table of exactly two full pages: the third, empty page ends the loop
C9_Witness ==
    /\ fpc = "done" /\ Len(tbl) = 2000 /\ Len(requests) = 3 /\ Len(fret) = 2000

\* C10: the slug returned occurs in the match id and is not a proper substring
\* of another known slug that occurs in it; None is returned when no known slug
\* occurs or the id is not a string.
C10_LongestSlug ==
    spc = "done" =>
        LET hits == {s \in KnownSlugs : mid.isStr /\ Contains(s, mid.chars)}
        IN  IF hits = {} THEN slugOut = None
            ELSE /\ slugOut \in hits
                 /\ \A s \in hits : (s # slugOut) => ~Contains(slugOut, s)

\* an id that holds 'premier-league', and so 'prem' as well
C10_Witness ==
    /\ spc = "done" /\ mid.isStr
    /\ Contains(S_premier_league, mid.chars)
    /\ slugOut = S_premier_league

====
